---------------------------- MODULE Spec2Model ----------------------------
(***************************************************************************)
(* A model of the database-backed tools of src/src/app.py                  *)
(* (retrieve_user_data, analyze_spending, generate_financial_advice,       *)
(* predict_future_spending, record_transaction,                            *)
(* generate_transaction_receipt) and of src/src/save_log.py                *)
(* (log_transaction).                                                      *)
(*                                                                         *)
(* Texts are sequences of one-character strings, so that the regular       *)
(* expression of record_transaction is matched character by character.     *)
(* Amounts are kept in hundredths (the DECIMAL values of the Transactions  *)
(* table); the conversion to a double is modelled bit by bit where an      *)
(* operation hands doubles to its caller.                                  *)
(***************************************************************************)
EXTENDS Integers, Sequences, FiniteSets, TLC

(* ------------------------------ bounds -------------------------------- *)

\* The Transactions table holds at most MaxRows rows (an insert is not
\* offered once the table is full).
MaxRows == 2

\* The database server accepts at most MaxConns connections at a time.
MaxConns == 2

\* A seeded Transactions table holds at most MaxSeedRows rows.
MaxSeedRows == 2

(* ---------------------------- characters ------------------------------ *)

Digits == {"0", "1", "2", "3", "4", "5", "6", "7", "8", "9"}

Letters ==
  {"a", "b", "c", "d", "e", "f", "i", "n", "o", "p", "r", "s", "t", "v",
   "x", "y", "B", "C", "E", "T", "U", "Y"}

\* \w of Python's re on a str: letters, digits and the underscore.
WordChars == Letters \cup Digits \cup {"_"}

Newline == "\n"

IsDigit(c) == c \in Digits

IsWord(c) == c \in WordChars

\* "." of the pattern: any character except a line break (no re.DOTALL).
IsDotChar(c) == c # Newline

Max(S) == CHOOSE x \in S : \A y \in S : y <= x

Min(S) == CHOOSE x \in S : \A y \in S : x <= y

(* --------------- the pattern of record_transaction -------------------- *)
\* The pattern: User, digits, spent, digits with an optional dot and more
\* digits, ETB for, one or more characters, via, word characters, today.

LitUser == <<"U", "s", "e", "r", " ">>

LitSpent == <<" ", "s", "p", "e", "n", "t", " ">>

LitEtbFor == <<" ", "E", "T", "B", " ", "f", "o", "r", " ">>

LitVia == <<" ", "v", "i", "a", " ">>

LitToday == <<" ", "t", "o", "d", "a", "y">>

\* The literal lit stands in t at position i.
LitAt(t, i, lit) ==
  /\ i >= 1
  /\ i + Len(lit) - 1 <= Len(t)
  /\ \A k \in 1..Len(lit) : t[i + k - 1] = lit[k]

\* t[a..b] is a non-empty run of digits.
AllDigits(t, a, b) == a <= b /\ \A j \in a..b : IsDigit(t[j])

\* t[a..b] matches \d+\.?\d* : digits, then at most one dot, then digits.
IsAmountSpan(t, a, b) ==
  /\ a <= b
  /\ \E e \in a..b :
       /\ AllDigits(t, a, e)
       /\ \/ e = b
          \/ /\ t[e + 1] = "."
             /\ \A j \in (e + 2)..b : IsDigit(t[j])

AllDot(t, a, b) == a <= b /\ \A j \in a..b : IsDotChar(t[j])

AllWord(t, a, b) == a <= b /\ \A j \in a..b : IsWord(t[j])

\* (\w+) today, from position m1: the ends m2 of the method group.
MethodEnds(t, m1) ==
  {m2 \in m1..Len(t) : AllWord(t, m1, m2) /\ LitAt(t, m2 + 1, LitToday)}

\* (.+) via (\w+) today, from position d1: the ends d2 of the description
\* group for which the rest of the pattern matches.
DescEnds(t, d1) ==
  {d2 \in d1..Len(t) :
     /\ AllDot(t, d1, d2)
     /\ LitAt(t, d2 + 1, LitVia)
     /\ MethodEnds(t, d2 + 1 + Len(LitVia)) # {}}

\* (\d+\.?\d*) ETB for ..., from position a1: the ends a2 of the amount group.
AmountEnds(t, a1) ==
  {a2 \in a1..Len(t) :
     /\ IsAmountSpan(t, a1, a2)
     /\ LitAt(t, a2 + 1, LitEtbFor)
     /\ DescEnds(t, a2 + 1 + Len(LitEtbFor)) # {}}

\* (\d+) spent ..., from position u1: the ends u2 of the user id group.
UserEnds(t, u1) ==
  {u2 \in u1..Len(t) :
     /\ AllDigits(t, u1, u2)
     /\ LitAt(t, u2 + 1, LitSpent)
     /\ AmountEnds(t, u2 + 1 + Len(LitSpent)) # {}}

\* The positions at which the whole pattern matches.
MatchStarts(t) ==
  {s \in 1..Len(t) : LitAt(t, s, LitUser) /\ UserEnds(t, s + Len(LitUser)) # {}}

\* A greedy quantifier keeps the longest repetition the rest of the
\* pattern accepts: \d+, \d* and \w+.
GreedyEnd(S) == Max(S)

\* A lazy quantifier keeps the shortest one.
LazyEnd(S) == Min(S)

\* DescEnd with a lazy quantifier, (.+?).
DescEndLazy(S) == LazyEnd(S)

\* The quantifier of the description group, (.+), is greedy.
DescEnd(S) == GreedyEnd(S)

NoMatch == [matched |-> FALSE]

\* re.search: the leftmost start, and from it the groups that backtracking
\* finds first.
ReSearch(t) ==
  IF MatchStarts(t) = {} THEN NoMatch
  ELSE
    LET s  == Min(MatchStarts(t))
        u1 == s + Len(LitUser)
        u2 == GreedyEnd(UserEnds(t, u1))
        a1 == u2 + 1 + Len(LitSpent)
        a2 == GreedyEnd(AmountEnds(t, a1))
        d1 == a2 + 1 + Len(LitEtbFor)
        d2 == DescEnd(DescEnds(t, d1))
        m1 == d2 + 1 + Len(LitVia)
        m2 == GreedyEnd(MethodEnds(t, m1))
    IN  [matched |-> TRUE,
         g1 |-> SubSeq(t, u1, u2),
         g2 |-> SubSeq(t, a1, a2),
         g3 |-> SubSeq(t, d1, d2),
         g4 |-> SubSeq(t, m1, m2)]

DigitVal(c) ==
  CASE c = "0" -> 0 [] c = "1" -> 1 [] c = "2" -> 2 [] c = "3" -> 3
    [] c = "4" -> 4 [] c = "5" -> 5 [] c = "6" -> 6 [] c = "7" -> 7
    [] c = "8" -> 8 [] c = "9" -> 9

\* int(match.group(1)): the decimal value of a run of digits.
RECURSIVE ParseInt(_)
ParseInt(ds) ==
  IF ds = <<>> THEN 0
  ELSE 10 * ParseInt(SubSeq(ds, 1, Len(ds) - 1)) + DigitVal(ds[Len(ds)])

\* The position of the dot in an amount text, 0 when it has none.
DotPos(g) ==
  IF \E i \in 1..Len(g) : g[i] = "." THEN CHOOSE i \in 1..Len(g) : g[i] = "."
  ELSE 0

\* float(match.group(2)), in hundredths: "250" is 25000, "2.5" is 250,
\* "3." is 300. The inputs of the model carry at most two decimals.
ParseAmount(g) ==
  LET p    == DotPos(g)
      ip   == IF p = 0 THEN g ELSE SubSeq(g, 1, p - 1)
      fp   == IF p = 0 THEN <<>> ELSE SubSeq(g, p + 1, Len(g))
      frac == IF Len(fp) = 0 THEN 0
              ELSE IF Len(fp) = 1 THEN 10 * ParseInt(fp)
              ELSE ParseInt(SubSeq(fp, 1, 2))
  IN  100 * ParseInt(ip) + frac

(* ------------------------------ inputs -------------------------------- *)

\* A text built around the five literals of the pattern.
MkText(pre, u, a, d, m, post) ==
  pre \o LitUser \o u \o LitSpent \o a \o LitEtbFor \o d \o LitVia \o m
      \o LitToday \o post

\* "User 7 spent 250 ETB for x via CBE today"
TextGroceries == MkText(<<>>, <<"7">>, <<"2", "5", "0">>, <<"x">>,
                        <<"C", "B", "E">>, <<>>)

\* "User 9 spent 0 ETB for x via Y today": no Users row has id 9.
TextZero == MkText(<<>>, <<"9">>, <<"0">>, <<"x">>, <<"Y">>, <<>>)

\* "User 7 spent abc ETB for x via Y today"
TextAbc == MkText(<<>>, <<"7">>, <<"a", "b", "c">>, <<"x">>, <<"Y">>, <<>>)

\* "User 7 spent 0.1 ETB for a via B today c via C today"
TextTwoVia ==
  MkText(<<>>, <<"7">>, <<"0", ".", "1">>, <<"a">>, <<"B">>,
         <<" ", "c">> \o LitVia \o <<"C">> \o LitToday)

\* "User 7 spent 5 ETB for x via CBE": the last literal is missing.
TextNoToday ==
  LitUser \o <<"7">> \o LitSpent \o <<"5">> \o LitEtbFor \o <<"x">> \o LitVia
    \o <<"C", "B", "E">>

\* The texts the callers of Spec pass to record_transaction.
MainTexts == {TextGroceries, TextZero, TextAbc, TextNoToday}

PreTexts == {<<>>, <<"U", "s", "e", "r", " ", "x", " ">>}

UidTexts == {<<"7">>, <<"0", "1">>, <<>>}

AmountTexts ==
  {<<"2", "5", "0">>, <<"2", ".", "5">>, <<"3", ".">>, <<"0">>,
   <<".", "5">>, <<"1", ".", "2", ".", "3">>, <<"a", "b", "c">>}

DescTexts ==
  {<<"x">>, <<>>, <<"a">> \o LitVia \o <<"B">>,
   <<"a">> \o LitVia \o <<"B">> \o LitToday \o <<" ", "c">>,
   <<"a", Newline, "b">>}

MethodTexts == {<<"C", "B", "E">>, <<"p", "_", "1">>, <<"a", "-", "b">>, <<>>}

PostTexts == {<<>>, <<".">>, LitVia \o <<"Y">> \o LitToday}

\* The texts the callers of SpecParse pass to record_transaction.
AllTexts ==
  {MkText(pre, u, a, d, m, post) :
     pre \in PreTexts, u \in UidTexts, a \in AmountTexts, d \in DescTexts,
     m \in MethodTexts, post \in PostTexts}

\* re.search of the pattern on each text the callers pass.
Searched == [t \in MainTexts \cup AllTexts |-> ReSearch(t)]

(* ------------------------------- dates -------------------------------- *)

MkDate(y, m, d) == [y |-> y, m |-> m, d |-> d]

IsLeap(y) == (y % 4 = 0 /\ y % 100 # 0) \/ y % 400 = 0

DaysInMonth(y, m) ==
  IF m = 2 THEN (IF IsLeap(y) THEN 29 ELSE 28)
  ELSE IF m \in {4, 6, 9, 11} THEN 30 ELSE 31

\* DATE_SUB(d, INTERVAL k MONTH): k months back, the day clamped to the
\* last day of the month reached.
DateSubMonths(dt, k) ==
  LET idx == dt.y * 12 + (dt.m - 1) - k
      y   == idx \div 12
      m   == (idx % 12) + 1
      d   == IF dt.d > DaysInMonth(y, m) THEN DaysInMonth(y, m) ELSE dt.d
  IN  MkDate(y, m, d)

DateLeq(a, b) ==
  \/ a.y < b.y
  \/ a.y = b.y /\ a.m < b.m
  \/ a.y = b.y /\ a.m = b.m /\ a.d <= b.d

\* strftime("%Y-%m-%d"): year, month and day as numbers in that order.
FormatDate(dt) == <<dt.y, dt.m, dt.d>>

\* The DATE a "%Y-%m-%d" text stands for.
ParseDate(txt) == MkDate(txt[1], txt[2], txt[3])

\* strftime("%B"): the name of the month, without the year.
MonthName(m) ==
  CASE m = 1 -> "January" [] m = 2 -> "February" [] m = 3 -> "March"
    [] m = 4 -> "April" [] m = 5 -> "May" [] m = 6 -> "June"
    [] m = 7 -> "July" [] m = 8 -> "August" [] m = 9 -> "September"
    [] m = 10 -> "October" [] m = 11 -> "November" [] m = 12 -> "December"

(* ------------------------------ doubles ------------------------------- *)
(* float(x) of a Decimal x: the double nearest to x, ties to even. A       *)
(* double is its 53-bit significand m (most significant bit first) and the *)
(* exponent e of its last bit: the value is m * 2^e. Zero has no bits.     *)

SignificandBits == 53

\* The division by 100 carries ScaleLimbs limbs of 16 binary places: with
\* four of them the quotient of every amount >= 0.01 has 54 bits or more.
ScaleLimbs == 4

Zeros(n) == [i \in 1..n |-> 0]

\* The value v < 2^16 as 16 bits, most significant first.
LimbBits(v) == [j \in 1..16 |-> (v \div (2 ^ (16 - j))) % 2]

\* bits without its leading zeros.
StripLeading(bits) ==
  IF \A i \in 1..Len(bits) : bits[i] = 0 THEN <<>>
  ELSE SubSeq(bits, Min({i \in 1..Len(bits) : bits[i] = 1}), Len(bits))

\* bits without its trailing zeros.
StripTrailing(bits) ==
  IF \A i \in 1..Len(bits) : bits[i] = 0 THEN <<>>
  ELSE SubSeq(bits, 1, Max({i \in 1..Len(bits) : bits[i] = 1}))

TrailingZeros(bits) == Len(bits) - Len(StripTrailing(bits))

\* Long division by the small number d of a number written in base 2^16
\* (most significant limb first): the quotient's limbs and the remainder.
RECURSIVE DivLimbs(_, _)
DivLimbs(limbs, d) ==
  IF limbs = <<>> THEN [q |-> <<>>, r |-> 0]
  ELSE LET prev == DivLimbs(SubSeq(limbs, 1, Len(limbs) - 1), d)
           cur  == 65536 * prev.r + limbs[Len(limbs)]
       IN  [q |-> Append(prev.q, cur \div d), r |-> cur % d]

\* The bits of a number written in base 2^16.
RECURSIVE LimbsToBits(_)
LimbsToBits(limbs) ==
  IF limbs = <<>> THEN <<>>
  ELSE LimbBits(limbs[1]) \o LimbsToBits(Tail(limbs))

\* bits + 1: the last zero becomes one and the ones after it zeros.
IncBits(bits) ==
  IF \A i \in 1..Len(bits) : bits[i] = 1 THEN <<1>> \o Zeros(Len(bits))
  ELSE LET z == Max({i \in 1..Len(bits) : bits[i] = 0})
       IN  [i \in 1..Len(bits) |->
              IF i < z THEN bits[i] ELSE IF i = z THEN 1 ELSE 0]

\* The carry into position i when adding two bit strings of one length:
\* some lower position j generates a carry (both bits set) and every
\* position between the two passes it on (one bit set).
CarryInto(a, b, i) ==
  IF \E j \in (i + 1)..Len(a) :
       /\ a[j] + b[j] = 2
       /\ \A k \in (i + 1)..(j - 1) : a[k] + b[k] = 1
  THEN 1 ELSE 0

AddAligned(a, b) ==
  (IF CarryInto(a, b, 0) = 1 THEN <<1>> ELSE <<>>)
    \o [i \in 1..Len(a) |-> (a[i] + b[i] + CarryInto(a, b, i)) % 2]

AddBits(a, b) ==
  LET n == IF Len(a) > Len(b) THEN Len(a) ELSE Len(b)
  IN  StripLeading(AddAligned(Zeros(n - Len(a)) \o a, Zeros(n - Len(b)) \o b))

DoubleZero == [m |-> <<>>, e |-> 0]

\* A bit string q of more than 53 bits and whatever was cut below it
\* (sticky), read with its last bit at exponent e: rounded to 53 bits.
RoundBits(q, sticky, e) ==
  LET L     == Len(q)
      m0    == SubSeq(q, 1, SignificandBits)
      guard == q[SignificandBits + 1]
      rest  == sticky \/ \E j \in (SignificandBits + 2)..L : q[j] = 1
      up    == guard = 1 /\ (rest \/ m0[SignificandBits] = 1)
      m1    == IF up THEN IncBits(m0) ELSE m0
      e1    == e + (L - SignificandBits)
  IN  IF Len(m1) > SignificandBits
      THEN [m |-> SubSeq(m1, 1, SignificandBits), e |-> e1 + 1]
      ELSE [m |-> m1, e |-> e1]

\* float(Decimal): the double nearest to cents / 100.
ToDouble(cents) ==
  IF cents = 0 THEN DoubleZero
  ELSE LET dv == DivLimbs(<<cents \div 65536, cents % 65536>> \o Zeros(ScaleLimbs),
                          100)
           q  == StripLeading(LimbsToBits(dv.q))
       IN  RoundBits(q, dv.r # 0, 0 - 16 * ScaleLimbs)

\* A dyadic number m * 2^e with m odd (or zero): one form per value.
Dyadic(bits, e) ==
  LET sig == StripLeading(bits)
  IN  IF sig = <<>> THEN DoubleZero
      ELSE [m |-> StripTrailing(sig), e |-> e + TrailingZeros(sig)]

\* The exact sum of two dyadic numbers.
DyadicAdd(a, b) ==
  IF a.m = <<>> THEN b
  ELSE IF b.m = <<>> THEN a
  ELSE LET lo == IF a.e < b.e THEN a.e ELSE b.e
       IN  Dyadic(AddBits(a.m \o Zeros(a.e - lo), b.m \o Zeros(b.e - lo)), lo)

\* The exact sum of a sequence of doubles.
RECURSIVE DyadicSum(_)
DyadicSum(ds) ==
  IF ds = <<>> THEN DoubleZero
  ELSE DyadicAdd(DyadicSum(SubSeq(ds, 1, Len(ds) - 1)),
                 Dyadic(ds[Len(ds)].m, ds[Len(ds)].e))

(* ------------------------------- state -------------------------------- *)

VARIABLES
  today,         \* datetime.date.today() and CURDATE()
  Users,         \* the Users table: a set of rows
  Budgets,       \* the Budgets table: a set of rows
  Transactions,  \* the Transactions table: rows in the order of their ids
  logLines,      \* the lines of the file FILE_PATHS["logs"]
  receipts,      \* the files under workflows/receipts: path and content
  openConns,     \* connections the server holds open
  pc,            \* where each caller stands
  call,          \* the tool a caller is in: argument, steps done, locals
  ret            \* what the caller's tool handed back

tables == <<Users, Budgets, Transactions>>

vars ==
  <<today, Users, Budgets, Transactions, logLines, receipts, openConns,
    pc, call, ret>>

NoVal == [none |-> TRUE]

NoCall == [op |-> "none", arg |-> 0, events |-> <<>>, loc |-> NoVal]

NoRet == [kind |-> "none", err |-> "", val |-> NoVal]

\* A dict without the key "error".
Ok(v) == [kind |-> "ok", err |-> "", val |-> v]

\* {"error": msg}
Err(msg) == [kind |-> "error", err |-> msg, val |-> NoVal]

\* An exception that leaves the tool.
Raised(exc) == [kind |-> "raised", err |-> exc, val |-> NoVal]

ErrConn == "Database connection failed."

ErrFormat ==
  "Invalid format. Use: 'User [ID] spent [Amount] ETB for [Purpose] via [Payment Method] today.'"

ErrUserNotFound == "User not found."

ErrNoTransactions == "No transactions found in the last 3 months."

ErrNoBudget == "No budget or user data found."

ErrNoHistory == "Not enough transaction history."

ErrNoTransaction == "No transaction found with ID {transaction_id}."

UserRow(id, fn, ln) ==
  [user_id |-> id, fname |-> fn, lname |-> ln, age |-> 30, gender |-> "F",
   occupation |-> "nurse", email |-> "u@example.org",
   created_at |-> MkDate(2025, 1, 2)]

BudgetRow(id, mo, sal, lim, goal) ==
  [user_id |-> id, month |-> mo, salary |-> sal, expense_limit |-> lim,
   savings_goal |-> goal]

TxnRow(id, uid, dt, amt, pm, desc) ==
  [transaction_id |-> id, user_id |-> uid, date |-> dt, amount |-> amt,
   payment_method |-> pm, description |-> desc]

\* Users 1 and 7 exist; user 1 has no budget for May; user 9 has a budget
\* and no Users row.
SeedUsers == {UserRow(1, "Sara", "Ali"), UserRow(7, "John", "Doe")}

SeedBudgets ==
  {BudgetRow(7, "May", 5000000, 4000000, 1000000),
   BudgetRow(1, "April", 3000000, 2000000, 500000),
   BudgetRow(9, "May", 100000, 80000, 20000)}

Today0 == MkDate(2025, 5, 27)

\* The rows a seeded Transactions table is made of: user, date, amount in
\* hundredths, payment method, description.
SeedRowPool ==
  {<<7, MkDate(2025, 3, 15), 10, <<"C", "B", "E">>, <<"a">>>>,
   <<7, MkDate(2025, 4, 10), 20, <<"Y">>, <<"b">>>>,
   <<7, MkDate(2025, 5, 20), 10000, <<"C", "B", "E">>, <<"c">>>>,
   <<7, MkDate(2025, 5, 21), 15000, <<"C", "B", "E">>, <<"d">>>>,
   <<7, MkDate(2026, 5, 1), 30, <<"Y">>, <<"e">>>>,
   <<7, MkDate(2025, 2, 27), 0, <<"Y">>, <<"f">>>>,
   <<7, MkDate(2025, 2, 26), 500, <<"Y">>, <<"g">>>>,
   <<1, MkDate(2025, 5, 20), 700, <<"C", "B", "E">>, <<"h">>>>,
   <<9, MkDate(2025, 5, 2), 0, <<"Y">>, <<"i">>>>}

\* A table of the rows rs, with ids in the order of the rows.
SeedTable(rs) ==
  [i \in 1..Len(rs) |->
     TxnRow(i, rs[i][1], rs[i][2], rs[i][3], rs[i][4], rs[i][5])]

\* The seeded tables of at most n rows.
SeedTables(n) ==
  UNION {{SeedTable(rs) : rs \in [1..k -> SeedRowPool]} : k \in 0..n}

InitWith(seeds, callers) ==
  /\ today = Today0
  /\ Users = SeedUsers
  /\ Budgets = SeedBudgets
  /\ Transactions \in seeds
  /\ logLines = <<>>
  /\ receipts = {}
  /\ openConns = 0
  /\ pc = [p \in callers |-> "idle"]
  /\ call = [p \in callers |-> NoCall]
  /\ ret = [p \in callers |-> NoRet]

\* create_connection(): a connection, or None when the server cannot be
\* reached; the server accepts no more than MaxConns connections.
CanConnect == openConns < MaxConns

\* The caller p is inside tool op, at step next.
Goto(p, next, op, arg, evs, loc) ==
  /\ pc' = [pc EXCEPT ![p] = next]
  /\ call' = [call EXCEPT ![p] =
                [op |-> op, arg |-> arg, events |-> evs, loc |-> loc]]

\* The tool op of caller p ends with outcome.
Finish(p, op, arg, evs, loc, outcome) ==
  /\ Goto(p, "done", op, arg, evs, loc)
  /\ ret' = [ret EXCEPT ![p] = outcome]

\* ConnFail without the check of the connection: the tool goes on with
\* None and db.cursor() raises.
ConnFailUnchecked(p, op, arg) ==
  /\ pc[p] = "idle"
  /\ Finish(p, op, arg, <<"connect_failed">>, NoVal, Raised("AttributeError"))
  /\ UNCHANGED <<today, tables, logLines, receipts, openConns>>

\* if not db: return {"error": "Database connection failed."}
ConnFail(p, op, arg) ==
  /\ pc[p] = "idle"
  /\ Finish(p, op, arg, <<"connect_failed">>, NoVal, Err(ErrConn))
  /\ UNCHANGED <<today, tables, logLines, receipts, openConns>>

\* The caller takes the outcome and is free for the next tool.
Return(p) ==
  /\ pc[p] = "done"
  /\ pc' = [pc EXCEPT ![p] = "idle"]
  /\ call' = [call EXCEPT ![p] = NoCall]
  /\ ret' = [ret EXCEPT ![p] = NoRet]
  /\ UNCHANGED <<today, tables, logLines, receipts, openConns>>

(* ------------------------ record_transaction -------------------------- *)

\* match.group(1..4) converted, and today's date as text.
Candidate(m) ==
  [user_id |-> ParseInt(m.g1), amount |-> ParseAmount(m.g2),
   description |-> m.g3, payment_method |-> m.g4,
   date |-> FormatDate(today), row_id |-> 0]

\* The dict record_transaction returns.
RecordResult(c) ==
  [user_id |-> c.user_id, date |-> c.date, amount |-> c.amount,
   payment_method |-> c.payment_method, description |-> c.description]

\* The line log_transaction appends (the time stamp put aside).
LogEntry(c) ==
  [user |-> c.user_id, date |-> c.date, amount |-> c.amount,
   payment |-> c.payment_method, desc |-> c.description]

\* RT_ConnFail with the text matched before the connection is asked for: a
\* text outside the format is refused without a connection.
RT_ParseBeforeConnect(p, text) ==
  IF Searched[text].matched
  THEN ConnFail(p, "record_transaction", text)
  ELSE /\ pc[p] = "idle"
       /\ Finish(p, "record_transaction", text, <<>>, NoVal, Err(ErrFormat))
       /\ UNCHANGED <<today, tables, logLines, receipts, openConns>>

RT_ConnFail(p, text) == ConnFail(p, "record_transaction", text)

\* RT_NoMatch with the refused text written to the log.
RT_NoMatchLogged(p, text) ==
  /\ pc[p] = "idle"
  /\ CanConnect
  /\ ~Searched[text].matched
  /\ logLines' = Append(logLines, [refused |-> text])
  /\ Finish(p, "record_transaction", text, <<"connect", "close">>, NoVal,
            Err(ErrFormat))
  /\ UNCHANGED <<today, tables, receipts, openConns>>

\* No match: the cursor and the connection are closed, the error returned.
RT_NoMatch(p, text) ==
  /\ pc[p] = "idle"
  /\ CanConnect
  /\ ~Searched[text].matched
  /\ Finish(p, "record_transaction", text, <<"connect", "close">>, NoVal,
            Err(ErrFormat))
  /\ UNCHANGED <<today, tables, logLines, receipts, openConns>>

\* RT_Match with log_transaction called before the INSERT.
RT_MatchLogged(p, text) ==
  /\ pc[p] = "idle"
  /\ CanConnect
  /\ Searched[text].matched
  /\ openConns' = openConns + 1
  /\ logLines' = Append(logLines, LogEntry(Candidate(Searched[text])))
  /\ Goto(p, "rt_insert", "record_transaction", text, <<"connect", "log">>,
          Candidate(Searched[text]))
  /\ UNCHANGED <<today, tables, receipts, ret>>

\* A match: the groups are converted; the INSERT comes next.
RT_Match(p, text) ==
  /\ pc[p] = "idle"
  /\ CanConnect
  /\ Searched[text].matched
  /\ openConns' = openConns + 1
  /\ Goto(p, "rt_insert", "record_transaction", text, <<"connect">>,
          Candidate(Searched[text]))
  /\ UNCHANGED <<today, tables, logLines, receipts, ret>>

\* RT_Insert with REPLACE in the place of INSERT: the new row takes the
\* place of the last row of the table.
RT_InsertReplaces(p) ==
  /\ pc[p] = "rt_insert"
  /\ Transactions # <<>>
  /\ LET c  == call[p].loc
         id == Len(Transactions)
     IN  /\ Transactions' =
              [Transactions EXCEPT ![id] =
                 TxnRow(id, c.user_id, ParseDate(c.date), c.amount,
                        c.payment_method, c.description)]
         /\ Goto(p, "rt_log", call[p].op, call[p].arg,
                 call[p].events \o <<"insert", "commit", "close">>,
                 [c EXCEPT !.row_id = id])
  /\ openConns' = openConns - 1
  /\ UNCHANGED <<today, Users, Budgets, logLines, receipts, ret>>

\* cursor.execute(INSERT ...); db.commit(); cursor.close(); db.close()
RT_Insert(p) ==
  /\ pc[p] = "rt_insert"
  /\ Len(Transactions) < MaxRows
  /\ LET c  == call[p].loc
         id == Len(Transactions) + 1
     IN  /\ Transactions' =
              Append(Transactions,
                     TxnRow(id, c.user_id, ParseDate(c.date), c.amount,
                            c.payment_method, c.description))
         /\ Goto(p, "rt_log", call[p].op, call[p].arg,
                 call[p].events \o <<"insert", "commit", "close">>,
                 [c EXCEPT !.row_id = id])
  /\ openConns' = openConns - 1
  /\ UNCHANGED <<today, Users, Budgets, logLines, receipts, ret>>

\* RT_InsertFails with the exception caught and the call going on: the log
\* line is appended and the dict returned without a committed row.
RT_InsertFailsLogged(p) ==
  /\ pc[p] = "rt_insert"
  /\ logLines' = Append(logLines, LogEntry(call[p].loc))
  /\ Finish(p, call[p].op, call[p].arg,
            call[p].events \o <<"insert_failed", "log">>, call[p].loc,
            Ok(RecordResult(call[p].loc)))
  /\ UNCHANGED <<today, tables, receipts, openConns>>

\* cursor.execute or db.commit raises: nothing is committed, nothing after
\* it runs, the connection is not closed.
RT_InsertFails(p) ==
  /\ pc[p] = "rt_insert"
  /\ Finish(p, call[p].op, call[p].arg,
            Append(call[p].events, "insert_failed"), call[p].loc,
            Raised("mysql.connector.Error"))
  /\ UNCHANGED <<today, tables, logLines, receipts, openConns>>

\* log_transaction(...) appends its line; the dict is returned.
RT_Log(p) ==
  /\ pc[p] = "rt_log"
  /\ logLines' = Append(logLines, LogEntry(call[p].loc))
  /\ Finish(p, call[p].op, call[p].arg, Append(call[p].events, "log"),
            call[p].loc, Ok(RecordResult(call[p].loc)))
  /\ UNCHANGED <<today, tables, receipts, openConns>>

\* open(FILE_PATHS["logs"], "a") or write raises: no line is appended.
RT_LogFails(p) ==
  /\ pc[p] = "rt_log"
  /\ Finish(p, call[p].op, call[p].arg, Append(call[p].events, "log_failed"),
            call[p].loc, Raised("OSError"))
  /\ UNCHANGED <<today, tables, logLines, receipts, openConns>>

\* The process is stopped between db.close() and log_transaction: the row
\* stays, no line is appended.
RT_Interrupted(p) ==
  /\ pc[p] = "rt_log"
  /\ Finish(p, call[p].op, call[p].arg, Append(call[p].events, "interrupted"),
            call[p].loc, Raised("KeyboardInterrupt"))
  /\ UNCHANGED <<today, tables, logLines, receipts, openConns>>

record_transaction(p, text) ==
  \/ RT_ConnFail(p, text)
  \/ RT_NoMatch(p, text)
  \/ RT_Match(p, text)

(* ------------------- generate_transaction_receipt --------------------- *)

DigitChar(n) ==
  CASE n = 0 -> "0" [] n = 1 -> "1" [] n = 2 -> "2" [] n = 3 -> "3"
    [] n = 4 -> "4" [] n = 5 -> "5" [] n = 6 -> "6" [] n = 7 -> "7"
    [] n = 8 -> "8" [] n = 9 -> "9"

\* f"{n}" of a natural number: its decimal digits.
RECURSIVE FormatInt(_)
FormatInt(n) ==
  IF n < 10 THEN <<DigitChar(n)>>
  ELSE Append(FormatInt(n \div 10), DigitChar(n % 10))

\* f"{amount:.2f}": the whole part, a dot, two decimals.
FormatAmount(cents) ==
  FormatInt(cents \div 100)
    \o <<".", DigitChar((cents % 100) \div 10), DigitChar(cents % 10)>>

\* ReceiptPath without the separator between the two ids.
ReceiptPathJoined(uid, tid) ==
  <<"u", "s", "e", "r">> \o FormatInt(uid) \o FormatInt(tid)
    \o <<"-", "r", "e", "c", "e", "i", "p", "t", ".", "p", "d", "f">>

\* f"workflows/receipts/user{user_id}-transaction{transaction_id}-receipt.pdf",
\* from the directory on.
ReceiptPath(uid, tid) ==
  <<"u", "s", "e", "r">> \o FormatInt(uid)
    \o <<"-", "t", "r", "a", "n", "s", "a", "c", "t", "i", "o", "n">>
    \o FormatInt(tid)
    \o <<"-", "r", "e", "c", "e", "i", "p", "t", ".", "p", "d", "f">>

\* SELECT * FROM Transactions WHERE transaction_id = %s; fetchone()
TxnById(tid) ==
  {Transactions[i] : i \in {j \in 1..Len(Transactions) :
                              Transactions[j].transaction_id = tid}}

\* SELECT fname, lname FROM Users WHERE user_id = %s; fetchone()
UserById(uid) == {u \in Users : u.user_id = uid}

\* The fields of the receipt, converted as the code converts them.
ReceiptFields(t, u) ==
  [user_full_name |-> <<u.fname, u.lname>>,
   transaction_id |-> t.transaction_id,
   user_id |-> t.user_id,
   date |-> FormatDate(t.date),
   amount |-> t.amount,
   payment_method |-> t.payment_method,
   description |-> t.description,
   receipt_path |-> ReceiptPath(t.user_id, t.transaction_id)]

\* The cells pdf.output writes.
ReceiptFile(f) ==
  [path |-> f.receipt_path,
   user |-> f.user_full_name,
   transaction_id |-> f.transaction_id,
   user_id |-> f.user_id,
   date |-> f.date,
   amount |-> FormatAmount(f.amount),
   payment_method |-> f.payment_method,
   description |-> f.description]

GR_ConnFail(p, tid) == ConnFail(p, "generate_transaction_receipt", tid)

\* GR_NotFound with the file opened before the row is looked up: an empty
\* receipt is left behind.
GR_NotFoundWritten(p, tid) ==
  /\ pc[p] = "idle"
  /\ CanConnect
  /\ TxnById(tid) = {}
  /\ openConns' = openConns + 1
  /\ receipts' = receipts \cup {[path |-> ReceiptPath(0, tid)]}
  /\ Finish(p, "generate_transaction_receipt", tid, <<"connect", "query">>,
            NoVal, Err(ErrNoTransaction))
  /\ UNCHANGED <<today, tables, logLines>>

\* No row: the error is returned after cursor.close(); db.close() is not
\* reached.
GR_NotFound(p, tid) ==
  /\ pc[p] = "idle"
  /\ CanConnect
  /\ TxnById(tid) = {}
  /\ openConns' = openConns + 1
  /\ Finish(p, "generate_transaction_receipt", tid, <<"connect", "query">>,
            NoVal, Err(ErrNoTransaction))
  /\ UNCHANGED <<today, tables, logLines, receipts>>

\* The row's user has no Users row: user is None and user['fname'] raises.
GR_NoUser(p, tid) ==
  /\ pc[p] = "idle"
  /\ CanConnect
  /\ \E t \in TxnById(tid) :
       /\ UserById(t.user_id) = {}
       /\ Finish(p, "generate_transaction_receipt", tid,
                 <<"connect", "query", "query", "close">>, NoVal,
                 Raised("TypeError"))
  /\ UNCHANGED <<today, tables, logLines, receipts, openConns>>

\* Row and user are read and the connection closed; the file comes next.
GR_Found(p, tid) ==
  /\ pc[p] = "idle"
  /\ CanConnect
  /\ \E t \in TxnById(tid) : \E u \in UserById(t.user_id) :
       Goto(p, "gr_write", "generate_transaction_receipt", tid,
            <<"connect", "query", "query", "close">>, ReceiptFields(t, u))
  /\ UNCHANGED <<today, tables, logLines, receipts, openConns, ret>>

\* pdf.output(receipt_filename): the file is written over any older one.
GR_Write(p) ==
  /\ pc[p] = "gr_write"
  /\ LET f == call[p].loc
     IN  /\ receipts' =
              {r \in receipts : r.path # f.receipt_path} \cup {ReceiptFile(f)}
         /\ Finish(p, call[p].op, call[p].arg, Append(call[p].events, "write"),
                   f, Ok(f))
  /\ UNCHANGED <<today, tables, logLines, openConns>>

generate_transaction_receipt(p, tid) ==
  \/ GR_ConnFail(p, tid)
  \/ GR_NotFound(p, tid)
  \/ GR_NoUser(p, tid)
  \/ GR_Found(p, tid)

(* ------------------------- retrieve_user_data ------------------------- *)

\* Users u LEFT JOIN Budgets b ON u.user_id = b.user_id
\* WHERE u.user_id = %s AND b.month = 'May'
UserWithMayBudget(uid) ==
  {<<u, b>> \in Users \X Budgets :
     u.user_id = uid /\ b.user_id = uid /\ b.month = "May"}

UserData(u, b) ==
  [user_id |-> u.user_id, fname |-> u.fname, lname |-> u.lname,
   age |-> u.age, gender |-> u.gender, occupation |-> u.occupation,
   email |-> u.email, created_at |-> FormatDate(u.created_at),
   salary |-> ToDouble(b.salary)]

retrieve_user_data(p, uid) ==
  \/ ConnFail(p, "retrieve_user_data", uid)
  \/ /\ pc[p] = "idle"
     /\ CanConnect
     /\ LET found == UserWithMayBudget(uid)
        IN  Finish(p, "retrieve_user_data", uid,
                   <<"connect", "query", "close">>, NoVal,
                   IF found = {} THEN Err(ErrUserNotFound)
                   ELSE LET ub == CHOOSE x \in found : TRUE
                        IN  Ok(UserData(ub[1], ub[2])))
     /\ UNCHANGED <<today, tables, logLines, receipts, openConns>>

(* ------------------ the rows of a trailing window --------------------- *)

\* r among rows sorted by date, after the rows of its date or earlier.
InsertByDate(sorted, r) ==
  LET k == Cardinality({i \in 1..Len(sorted) : DateLeq(sorted[i].date, r.date)})
  IN  SubSeq(sorted, 1, k) \o <<r>> \o SubSeq(sorted, k + 1, Len(sorted))

\* ORDER BY date ASC
RECURSIVE SortByDate(_)
SortByDate(rows) ==
  IF rows = <<>> THEN <<>>
  ELSE InsertByDate(SortByDate(SubSeq(rows, 1, Len(rows) - 1)), rows[Len(rows)])

InWindowRow(r, uid, months) ==
  r.user_id = uid /\ DateLeq(DateSubMonths(today, months), r.date)

\* WHERE user_id = %s AND date >= DATE_SUB(CURDATE(), INTERVAL k MONTH)
WindowRows(uid, months) ==
  SelectSeq(Transactions, LAMBDA r : InWindowRow(r, uid, months))

\* The sum of the DECIMAL amounts of rows, in hundredths.
RECURSIVE SumAmounts(_)
SumAmounts(rows) ==
  IF rows = <<>> THEN 0
  ELSE SumAmounts(SubSeq(rows, 1, Len(rows) - 1)) + rows[Len(rows)].amount

\* df["month"]: the month name of each row's date.
RowMonth(r) == MonthName(r.date.m)

\* The month names in the order of str: groupby sorts its keys.
SortedMonths ==
  <<"April", "August", "December", "February", "January", "July", "June",
    "March", "May", "November", "October", "September">>

\* The keys of df.groupby("month"), in the order groupby yields them.
GroupKeys(rows) ==
  SelectSeq(SortedMonths,
            LAMBDA k : \E i \in 1..Len(rows) : RowMonth(rows[i]) = k)

\* GroupSums with first() in the place of sum(): each key gets the amount
\* of its first row.
GroupSumsFirst(rows) ==
  LET keys == GroupKeys(rows)
  IN  [i \in 1..Len(keys) |->
         [month |-> keys[i],
          cents |-> SelectSeq(rows, LAMBDA r : RowMonth(r) = keys[i])[1].amount]]

\* df.groupby("month")["amount"].sum(): one sum per key, in hundredths.
GroupSums(rows) ==
  LET keys == GroupKeys(rows)
  IN  [i \in 1..Len(keys) |->
         [month |-> keys[i],
          cents |-> SumAmounts(SelectSeq(rows, LAMBDA r : RowMonth(r) = keys[i]))]]

(* -------------------------- analyze_spending -------------------------- *)

\* df["payment_method"].value_counts().to_dict(): the count of each
\* method (the order of the keys is left out).
PaymentCounts(rows) ==
  [pm \in {rows[i].payment_method : i \in 1..Len(rows)} |->
     Cardinality({i \in 1..Len(rows) : rows[i].payment_method = pm})]

\* The insights dict: every amount converted by float().
Insights(rows) ==
  LET sums == GroupSums(rows)
  IN  [total_spent |-> ToDouble(SumAmounts(rows)),
       monthly_breakdown |->
         [i \in 1..Len(sums) |->
            [month |-> sums[i].month, amount |-> ToDouble(sums[i].cents)]],
       top_payment_methods |-> PaymentCounts(rows)]

analyze_spending(p, uid) ==
  \/ ConnFail(p, "analyze_spending", uid)
  \/ /\ pc[p] = "idle"
     /\ CanConnect
     /\ LET rows == SortByDate(WindowRows(uid, 3))
        IN  Finish(p, "analyze_spending", uid, <<"connect", "query", "close">>,
                   NoVal,
                   IF rows = <<>> THEN Err(ErrNoTransactions)
                   ELSE Ok(Insights(rows)))
     /\ UNCHANGED <<today, tables, logLines, receipts, openConns>>

(* --------------------- generate_financial_advice ---------------------- *)

\* MayBudget without the condition on the month.
MayBudgetAnyMonth(uid) == {b \in Budgets : b.user_id = uid}

\* SELECT salary, expense_limit, savings_goal FROM Budgets
\* WHERE user_id = %s AND month = 'May'
MayBudget(uid) == {b \in Budgets : b.user_id = uid /\ b.month = "May"}

Advice(b, u, spent) ==
  [name |-> <<u.fname, u.lname>>,
   salary |-> ToDouble(b.salary),
   expense_limit |-> ToDouble(b.expense_limit),
   savings_goal |-> ToDouble(b.savings_goal),
   total_spent |-> ToDouble(spent)]

generate_financial_advice(p, uid) ==
  \/ ConnFail(p, "generate_financial_advice", uid)
  \/ /\ pc[p] = "idle"
     /\ CanConnect
     /\ LET budget == MayBudget(uid)
            spent  == SumAmounts(WindowRows(uid, 1))
            user   == UserById(uid)
        IN  Finish(p, "generate_financial_advice", uid,
                   <<"connect", "query", "query", "query", "close">>, NoVal,
                   IF budget = {} \/ user = {} THEN Err(ErrNoBudget)
                   ELSE Ok(Advice(CHOOSE b \in budget : TRUE,
                                  CHOOSE u \in user : TRUE, spent)))
     /\ UNCHANGED <<today, tables, logLines, receipts, openConns>>

(* ---------------------- predict_future_spending ----------------------- *)

\* UniformDraws of np.random.uniform(0.8, 1.2).
UniformDrawsWide == {80, 100, 120}

\* np.random.uniform(0.9, 1.2), in hundredths: the two ends and a value
\* between them.
UniformDraws == {90, 105, 120}

\* np.mean(monthly_totals): the sum of the monthly totals over their
\* number, kept as a fraction of hundredths.
MeanOf(sums) ==
  [num |-> SumAmounts([i \in 1..Len(sums) |-> [amount |-> sums[i].cents]]),
   den |-> Len(sums)]

\* avg_spending * u for a draw u, kept as a fraction of hundredths.
Scaled(avg, u) == [num |-> avg.num * u, den |-> avg.den * 100]

Forecast(rows, u) ==
  [average_spending |-> MeanOf(GroupSums(rows)),
   predicted_spending |-> Scaled(MeanOf(GroupSums(rows)), u)]

predict_future_spending(p, uid) ==
  \/ ConnFail(p, "predict_future_spending", uid)
  \/ /\ pc[p] = "idle"
     /\ CanConnect
     /\ LET rows == SortByDate(WindowRows(uid, 3))
        IN  \E u \in UniformDraws :
              Finish(p, "predict_future_spending", uid,
                     <<"connect", "query", "close">>, NoVal,
                     IF rows = <<>> THEN Err(ErrNoHistory)
                     ELSE Ok(Forecast(rows, u)))
     /\ UNCHANGED <<today, tables, logLines, receipts, openConns>>

(* --------------------------- specifications --------------------------- *)

\* The user ids and transaction ids the callers ask about.
AskedUsers == {1, 7, 9}

AskedTransactions == 1..(MaxRows + 1)

\* The tables the ledger starts from.
MainSeeds ==
  {<<>>, SeedTable(<<<<7, MkDate(2025, 4, 10), 20, <<"Y">>, <<"b">>>>>>)}

\* One caller, one tool at a time: the blocking call model of the tools.
OneCaller == {"c1"}

Init == InitWith(MainSeeds, OneCaller)

Next ==
  \E p \in OneCaller :
    \/ \E text \in MainTexts : record_transaction(p, text)
    \/ RT_Insert(p)
    \/ RT_InsertFails(p)
    \/ RT_Log(p)
    \/ RT_LogFails(p)
    \/ \E tid \in AskedTransactions : generate_transaction_receipt(p, tid)
    \/ GR_Write(p)
    \/ \E uid \in AskedUsers : retrieve_user_data(p, uid)
    \/ \E uid \in AskedUsers : analyze_spending(p, uid)
    \/ \E uid \in AskedUsers : generate_financial_advice(p, uid)
    \/ \E uid \in AskedUsers : predict_future_spending(p, uid)
    \/ Return(p)

Spec == Init /\ [][Next]_vars

\* record_transaction on one text, drawn at the start from AllTexts.
InitParse ==
  /\ InitWith({<<>>}, OneCaller)!1
  /\ InitWith({<<>>}, OneCaller)!2
  /\ InitWith({<<>>}, OneCaller)!3
  /\ InitWith({<<>>}, OneCaller)!4
  /\ InitWith({<<>>}, OneCaller)!5
  /\ InitWith({<<>>}, OneCaller)!6
  /\ InitWith({<<>>}, OneCaller)!7
  /\ InitWith({<<>>}, OneCaller)!8
  /\ \E text \in AllTexts : call = [p \in OneCaller |-> [NoCall EXCEPT !.arg = text]]
  /\ InitWith({<<>>}, OneCaller)!10

NextParse ==
  \E p \in OneCaller :
    \/ call[p].op = "none" /\ record_transaction(p, call[p].arg)
    \/ RT_Insert(p)
    \/ RT_InsertFails(p)
    \/ RT_Log(p)
    \/ RT_LogFails(p)

SpecParse == InitParse /\ [][NextParse]_vars

\* The reports over seeded tables of at most MaxSeedRows rows.
InitReports == InitWith(SeedTables(MaxSeedRows), OneCaller)

NextReports ==
  \E p \in OneCaller :
    \/ \E uid \in AskedUsers : analyze_spending(p, uid)
    \/ \E uid \in AskedUsers : predict_future_spending(p, uid)
    \/ Return(p)

SpecReports == InitReports /\ [][NextReports]_vars

(* ----------------------------- properties ----------------------------- *)

\* The intake grammar, read off the text: what the four components may be.
IsDigits(s) == Len(s) >= 1 /\ \A k \in 1..Len(s) : s[k] \in Digits

IsNumber(s) ==
  \E n \in 1..Len(s) :
    /\ IsDigits(SubSeq(s, 1, n))
    /\ \/ n = Len(s)
       \/ s[n + 1] = "." /\ \A k \in (n + 2)..Len(s) : s[k] \in Digits

IsDescription(s) == Len(s) >= 1 /\ \A k \in 1..Len(s) : s[k] # Newline

IsToken(s) == Len(s) >= 1 /\ \A k \in 1..Len(s) : s[k] \in WordChars

\* The sentence of the grammar with the components U, A, D, M.
Sentence(U, A, D, M) ==
  LitUser \o U \o LitSpent \o A \o LitEtbFor \o D \o LitVia \o M \o LitToday

\* t holds at position i the sentence with the components U, A, D, M.
ReadsAs(t, i, U, A, D, M) ==
  /\ IsDigits(U) /\ IsNumber(A) /\ IsDescription(D) /\ IsToken(M)
  /\ i + Len(Sentence(U, A, D, M)) - 1 <= Len(t)
  /\ SubSeq(t, i, i + Len(Sentence(U, A, D, M)) - 1) = Sentence(U, A, D, M)

\* The pieces of t that start at position a.
PiecesAt(t, a) == {SubSeq(t, a, b) : b \in a..Len(t)}

\* t holds a sentence of the grammar somewhere.
InGrammar(t) ==
  \E i \in 1..Len(t) :
    /\ LitAt(t, i, LitUser)
    /\ \E U \in PiecesAt(t, i + Len(LitUser)) :
         /\ IsDigits(U)
         /\ \E A \in PiecesAt(t, i + Len(LitUser \o U \o LitSpent)) :
              /\ IsNumber(A)
              /\ \E D \in PiecesAt(t, i + Len(LitUser \o U \o LitSpent \o A
                                               \o LitEtbFor)) :
                   /\ IsDescription(D)
                   /\ \E M \in PiecesAt(t, i + Len(LitUser \o U \o LitSpent \o A
                                                    \o LitEtbFor \o D \o LitVia)) :
                        ReadsAs(t, i, U, A, D, M)

\* The caller p stands at the end of a call of op.
Ended(p, op) == pc[p] = "done" /\ call[p].op = op

\* The step with which p enters the tool op.
Enters(p, op) == pc[p] = "idle" /\ pc'[p] # "idle" /\ call'[p].op = op

\* How often the step ev was taken in the call of p.
Times(p, ev) ==
  Cardinality({k \in 1..Len(call[p].events) : call[p].events[k] = ev})

\* The six tools.
Tools ==
  {"retrieve_user_data", "analyze_spending", "generate_financial_advice",
   "predict_future_spending", "record_transaction",
   "generate_transaction_receipt"}

\* C1: a call of record_transaction with a text outside the intake grammar
\* ends at once with a failure value, whatever the ledger holds, and leaves
\* the Transactions table and the audit log as they were: no row is
\* inserted and no log line is appended.
C1_NoMatchLeavesLedger ==
  [][\A p \in OneCaller :
       (Enters(p, "record_transaction") /\ ~InGrammar(call'[p].arg))
         => /\ pc'[p] = "done"
            /\ ret'[p].kind = "error"
            /\ Transactions' = Transactions
            /\ logLines' = logLines]_vars

\* C1: a text outside the grammar was refused over a ledger that holds rows
\* and log lines.
C1_Witness ==
  \E p \in OneCaller :
    /\ Ended(p, "record_transaction")
    /\ ~InGrammar(call[p].arg)
    /\ ret[p] = Err(ErrFormat)
    /\ Transactions # <<>>
    /\ logLines # <<>>

\* C2, as the specification states it: a call of record_transaction with a
\* text outside the grammar ends with the format error and has asked for no
\* connection, so the outcome is the same with the database out of reach.
C2_ParseErrorWithoutStorage ==
  \A p \in OneCaller :
    (Ended(p, "record_transaction") /\ ~InGrammar(call[p].arg))
      => /\ ret[p] = Err(ErrFormat)
         /\ Times(p, "connect") = 0
         /\ Times(p, "connect_failed") = 0

\* C2, as the code has it: a call of record_transaction with a text outside
\* the grammar asks for a connection before it looks at the text. Without a
\* connection it ends with the connection failure and nothing else done;
\* with one it ends with the format error, having only opened and closed
\* the connection: no query, no insert, no commit, no log line.
C2_ConnectThenParseError ==
  \A p \in OneCaller :
    (Ended(p, "record_transaction") /\ ~InGrammar(call[p].arg))
      => \/ call[p].events = <<"connect_failed">> /\ ret[p] = Err(ErrConn)
         \/ call[p].events = <<"connect", "close">> /\ ret[p] = Err(ErrFormat)

\* C2: a text outside the grammar met a database out of reach.
C2_Witness ==
  \E p \in OneCaller :
    /\ Ended(p, "record_transaction")
    /\ ~InGrammar(call[p].arg)
    /\ ret[p] = Err(ErrConn)

\* C3, as the specification states it: a call of record_transaction that
\* has ended wrote one log line if its row was committed and none
\* otherwise, also when the log append failed.
C3_OneLogLinePerCommit ==
  \A p \in OneCaller :
    Ended(p, "record_transaction")
      => Times(p, "log") = (IF Times(p, "commit") = 1 THEN 1 ELSE 0)

\* C3, as the code has it: a call of record_transaction that has ended
\* wrote one log line, the last of the log and made of the call's fields,
\* if its row was committed and the append succeeded, and none otherwise;
\* a failed append comes after the commit, leaves the committed row without
\* a log line and ends the call with the exception.
C3_OneLogLinePerLoggedCommit ==
  \A p \in OneCaller :
    Ended(p, "record_transaction")
      => /\ Times(p, "log")
              = (IF Times(p, "commit") = 1 /\ Times(p, "log_failed") = 0
                 THEN 1 ELSE 0)
         /\ Times(p, "log") = 1
              => /\ logLines # <<>>
                 /\ logLines[Len(logLines)] = LogEntry(call[p].loc)
                 /\ ret[p].kind = "ok"
         /\ Times(p, "log_failed") = 1
              => /\ Times(p, "commit") = 1
                 /\ call[p].loc.row_id \in 1..Len(Transactions)
                 /\ ret[p].kind = "raised"

\* C3: the row of a call was committed and its log append failed.
C3_Witness ==
  \E p \in OneCaller :
    /\ Ended(p, "record_transaction")
    /\ Times(p, "commit") = 1
    /\ Times(p, "log_failed") = 1
    /\ Times(p, "log") = 0

\* C4: every tool asks for its connection as its first step, and when the
\* connection cannot be established the tool ends at once with the
\* connection failure, having run no query and no insert, appended no log
\* line and written no file.
C4_ConnectionCheckedFirst ==
  [][\A p \in OneCaller :
       (pc[p] = "idle" /\ pc'[p] # "idle")
         => /\ call'[p].op \in Tools
            /\ call'[p].events[1] \in {"connect", "connect_failed"}
            /\ call'[p].events[1] = "connect_failed"
                 => /\ pc'[p] = "done"
                    /\ ret'[p] = Err(ErrConn)
                    /\ call'[p].events = <<"connect_failed">>
                    /\ UNCHANGED <<tables, logLines, receipts, openConns>>]_vars

\* C4: a receipt was asked for a row that exists, and the connection could
\* not be established.
C4_Witness ==
  \E p \in OneCaller :
    /\ Ended(p, "generate_transaction_receipt")
    /\ TxnById(call[p].arg) # {}
    /\ ret[p] = Err(ErrConn)

\* C5, as the specification states it: every call closes the connection it
\* opened before it ends, on every path, so that no connection is open when
\* no call is under way.
C5_ConnectionsReleased ==
  (\A p \in OneCaller : pc[p] \in {"idle", "done"}) => openConns = 0

\* C6, as the specification states it: every call ends with a result or
\* with a failure value; no exception leaves a tool.
C6_NothingRaised ==
  \A p \in OneCaller : pc[p] = "done" => ret[p].kind \in {"ok", "error"}

\* C8: a call of generate_transaction_receipt for an id that no row of
\* Transactions has ends at once with the not-found failure (with the
\* connection failure when no connection could be established) and leaves
\* the receipt files and their contents as they were.
C8_NoRowNoReceipt ==
  [][\A p \in OneCaller :
       (Enters(p, "generate_transaction_receipt") /\ TxnById(call'[p].arg) = {})
         => /\ pc'[p] = "done"
            /\ receipts' = receipts
            /\ \/ ret'[p] = Err(ErrNoTransaction)
               \/ ret'[p] = Err(ErrConn) /\ call'[p].events = <<"connect_failed">>]_vars

\* C8: a receipt was asked for an id without a row while receipt files
\* exist, and the call ended with the not-found failure.
C8_Witness ==
  \E p \in OneCaller :
    /\ Ended(p, "generate_transaction_receipt")
    /\ TxnById(call[p].arg) = {}
    /\ ret[p] = Err(ErrNoTransaction)
    /\ receipts # {}

\* The readings of t at position i: every way to cut the text from i on
\* into a sentence of the grammar.
ReadingsAt(t, i) ==
  UNION {UNION {UNION {
    {<<U, A, D, M>> :
       M \in {M \in PiecesAt(t, i + Len(LitUser \o U \o LitSpent \o A
                                        \o LitEtbFor \o D \o LitVia)) :
                ReadsAs(t, i, U, A, D, M)}} :
    D \in {D \in PiecesAt(t, i + Len(LitUser \o U \o LitSpent \o A
                                     \o LitEtbFor)) : IsDescription(D)}} :
    A \in {A \in PiecesAt(t, i + Len(LitUser \o U \o LitSpent)) : IsNumber(A)}} :
    U \in {U \in PiecesAt(t, i + Len(LitUser)) : IsDigits(U)}}

\* The first position of t with a reading.
FirstReading(t) ==
  Min({i \in 1..Len(t) : LitAt(t, i, LitUser) /\ ReadingsAt(t, i) # {}})

\* The fields f are the values of the reading r.
FieldsOfReading(f, r) ==
  /\ f.user_id = ParseInt(r[1])
  /\ f.amount = ParseAmount(r[2])
  /\ f.description = r[3]
  /\ f.payment_method = r[4]

\* f holds the components of the first sentence in t, the description
\* running up to the last " via " that a token and " today" follow.
LongestReading(t, f) ==
  /\ InGrammar(t)
  /\ \E r \in ReadingsAt(t, FirstReading(t)) :
       /\ FieldsOfReading(f, r)
       /\ \A q \in ReadingsAt(t, FirstReading(t)) : Len(q[3]) <= Len(r[3])

\* f holds the components of the first sentence in t, the description
\* running up to the next " via " that a token and " today" follow.
ShortestReading(t, f) ==
  /\ InGrammar(t)
  /\ \E r \in ReadingsAt(t, FirstReading(t)) :
       /\ FieldsOfReading(f, r)
       /\ \A q \in ReadingsAt(t, FirstReading(t)) : Len(q[3]) >= Len(r[3])

\* The row the call of p has stored, if it has stored one.
StoredRow(p) ==
  IF call[p].op = "record_transaction" /\ pc[p] \in {"rt_log", "done"}
       /\ call[p].loc # NoVal /\ call[p].loc.row_id # 0
  THEN {Transactions[call[p].loc.row_id]}
  ELSE {}

\* The dict the call of p has returned, if it has returned one.
ReturnedFields(p) ==
  IF Ended(p, "record_transaction") /\ ret[p].kind = "ok" THEN {ret[p].val}
  ELSE {}

\* C7, as the specification states it: the fields record_transaction stores
\* and returns are the components of the text, the description running up
\* to the next " via " (non-greedy), also when " via " occurs again in the
\* description or after the sentence.
C7_FieldsNonGreedy ==
  \A p \in OneCaller : \A f \in StoredRow(p) \cup ReturnedFields(p) :
    ShortestReading(call[p].arg, f)

\* C7, as the code has it: the fields record_transaction stores and returns
\* are the components of the first sentence of the grammar in the text:
\* user id the value of the digits after "User ", amount the value of the
\* number before " ETB for ", payment method the word characters between
\* " via " and " today", and the description the longest run of characters
\* (greedy) that " via ", a token and " today" still follow: it runs up to
\* the last such " via ", not the next.
C7_FieldsGreedy ==
  \A p \in OneCaller : \A f \in StoredRow(p) \cup ReturnedFields(p) :
    LongestReading(call[p].arg, f)

\* C7: a text with more than one " via " was stored and returned, and its
\* description holds a " via ".
C7_Witness ==
  \E p \in OneCaller :
    /\ StoredRow(p) # {}
    /\ \E f \in ReturnedFields(p) :
         \E k \in 1..Len(f.description) : LitAt(f.description, k, LitVia)

\* The rows of Transactions (by position) that the three-month window of
\* user uid holds.
InWindow(uid) ==
  {i \in 1..Len(Transactions) : InWindowRow(Transactions[i], uid, 3)}

\* The exact sum, in hundredths, of the amounts of the rows at positions S.
RECURSIVE CentsOf(_)
CentsOf(S) ==
  IF S = {} THEN 0
  ELSE LET i == CHOOSE j \in S : TRUE
       IN  Transactions[i].amount + CentsOf(S \ {i})

\* The rows at positions W dated in a month named mo, of whatever year.
InMonth(W, mo) == {i \in W : MonthName(Transactions[i].date.m) = mo}

\* The entries of a monthly_breakdown mb named mo.
EntriesOf(mb, mo) == {k \in DOMAIN mb : mb[k].month = mo}

\* Each row of W is counted in one entry of mb and one only.
CountedOnce(W, mb) ==
  \A i \in W :
    Cardinality(EntriesOf(mb, MonthName(Transactions[i].date.m))) = 1

\* The dyadic number d as a double: the nearest one, ties to even.
RoundDyadic(d) ==
  IF d.m = <<>> THEN DoubleZero
  ELSE IF Len(d.m) <= SignificandBits
  THEN [m |-> d.m \o Zeros(SignificandBits - Len(d.m)),
        e |-> d.e - (SignificandBits - Len(d.m))]
  ELSE RoundBits(d.m, FALSE, d.e)

\* The sum of the doubles ds as floating-point addition gives it, every
\* rounding but the last one spared.
FloatSum(ds) == RoundDyadic(DyadicSum(ds))

\* C9, as the specification states it: the values of monthly_breakdown sum
\* to total_spent, and each row of the window is counted in one entry.
C9_BreakdownSumsToTotal ==
  \A p \in OneCaller :
    (Ended(p, "analyze_spending") /\ ret[p].kind = "ok")
      => LET mb == ret[p].val.monthly_breakdown
         IN  /\ FloatSum([k \in DOMAIN mb |-> mb[k].amount])
                  = ret[p].val.total_spent
             /\ CountedOnce(InWindow(call[p].arg), mb)

\* C9, as the code has it: the amounts are summed as decimals and each sum
\* is converted to a double on its own. Each row of the window is counted
\* in the one entry named after its month, rows of different years with the
\* same month name in the same entry; each entry is the double nearest to
\* the exact sum of its rows, and total_spent the double nearest to the
\* exact sum of all rows of the window. The doubles of the entries need
\* not add up to total_spent.
C9_BreakdownPartitionsWindow ==
  \A p \in OneCaller :
    (Ended(p, "analyze_spending") /\ ret[p].kind = "ok")
      => LET mb == ret[p].val.monthly_breakdown
             W  == InWindow(call[p].arg)
         IN  /\ W # {}
             /\ CountedOnce(W, mb)
             /\ \A k \in DOMAIN mb :
                  /\ InMonth(W, mb[k].month) # {}
                  /\ mb[k].amount = ToDouble(CentsOf(InMonth(W, mb[k].month)))
             /\ ret[p].val.total_spent = ToDouble(CentsOf(W))

\* C9: the window holds two rows of different years and one month name with
\* amounts above zero, and the report was made.
C9_Witness ==
  \E p \in OneCaller :
    /\ Ended(p, "analyze_spending")
    /\ ret[p].kind = "ok"
    /\ \E i, j \in InWindow(call[p].arg) :
         /\ Transactions[i].date.y # Transactions[j].date.y
         /\ Transactions[i].date.m = Transactions[j].date.m
         /\ Transactions[i].amount > 0
         /\ Transactions[j].amount > 0

InitAdvice ==
  /\ today = Today0
  /\ Users \in SUBSET SeedUsers
  /\ Budgets \in SUBSET SeedBudgets
  /\ Transactions \in SeedTables(MaxSeedRows)
  /\ logLines = <<>>
  /\ receipts = {}
  /\ openConns = 0
  /\ pc = [p \in OneCaller |-> "idle"]
  /\ call = [p \in OneCaller |-> NoCall]
  /\ ret = [p \in OneCaller |-> NoRet]

NextAdvice ==
  \E p \in OneCaller :
    \/ \E uid \in AskedUsers : generate_financial_advice(p, uid)
    \/ Return(p)

SpecAdvice == InitAdvice /\ [][NextAdvice]_vars

\* The rows of Transactions (by position) of user uid dated within the
\* month before today.
InLastMonth(uid) ==
  {i \in 1..Len(Transactions) : InWindowRow(Transactions[i], uid, 1)}

\* User uid lacks the Budgets row of May or the Users row.
LacksBudgetOrUser(uid) ==
  \/ ~\E b \in Budgets : b.user_id = uid /\ b.month = "May"
  \/ ~\E u \in Users : u.user_id = uid

\* C11: a call of generate_financial_advice that got its connection ends
\* with the no-data failure exactly when the user's Budgets row of May or
\* the user's Users row is absent; when both exist it ends with a result
\* whose total_spent is the sum of the user's amounts of the trailing
\* month, 0 when the user has no transaction in that month.
C11_NoDataIffRowAbsent ==
  \A p \in OneCaller :
    (Ended(p, "generate_financial_advice") /\ call[p].events[1] = "connect")
      => /\ ret[p].kind \in {"ok", "error"}
         /\ ret[p] = Err(ErrNoBudget) <=> LacksBudgetOrUser(call[p].arg)
         /\ ret[p].kind = "error" => ret[p] = Err(ErrNoBudget)
         /\ ret[p].kind = "ok"
              => /\ ret[p].val.total_spent
                      = ToDouble(CentsOf(InLastMonth(call[p].arg)))
                 /\ InLastMonth(call[p].arg) = {}
                      => ret[p].val.total_spent = DoubleZero

\* C11: the advice of a user with both rows, with transactions older than
\* a month and none in the trailing month: total_spent is 0.
C11_Witness ==
  \E p \in OneCaller :
    /\ Ended(p, "generate_financial_advice")
    /\ ret[p].kind = "ok"
    /\ InLastMonth(call[p].arg) = {}
    /\ InWindow(call[p].arg) # {}
    /\ ret[p].val.total_spent = DoubleZero

\* What analyze_spending reports for user uid, read off the tables: the
\* total, one entry per month name met in the window, the count of each
\* payment method.
ReportOf(uid) ==
  LET W    == InWindow(uid)
      keys == SelectSeq(SortedMonths,
                        LAMBDA k : \E i \in W : MonthName(Transactions[i].date.m) = k)
  IN  [total_spent |-> ToDouble(CentsOf(W)),
       monthly_breakdown |->
         [k \in 1..Len(keys) |->
            [month |-> keys[k], amount |-> ToDouble(CentsOf(InMonth(W, keys[k])))]],
       top_payment_methods |->
         [pm \in {Transactions[i].payment_method : i \in W} |->
            Cardinality({i \in W : Transactions[i].payment_method = pm})]]

\* Users and Budgets stay as they are and Transactions keeps every row it
\* has; a row comes only as one new last row, from the INSERT step of a
\* call of record_transaction.
OnlyGrows ==
  /\ Users' = Users
  /\ Budgets' = Budgets
  /\ Len(Transactions') >= Len(Transactions)
  /\ SubSeq(Transactions', 1, Len(Transactions)) = Transactions
  /\ Transactions' # Transactions
       => /\ Len(Transactions') = Len(Transactions) + 1
          /\ \E p \in OneCaller :
               /\ call[p].op = "record_transaction"
               /\ pc[p] = "rt_insert"
               /\ pc'[p] = "rt_log"
               /\ StoredRow(p)' = {Transactions'[Len(Transactions')]}

\* A call of analyze_spending that got its connection hands back what the
\* tables give, so that two calls over the same tables hand back the same.
ReportFromTables ==
  \A p \in OneCaller :
    (Enters(p, "analyze_spending") /\ call'[p].events[1] = "connect")
      => /\ pc'[p] = "done"
         /\ ret'[p] = (IF InWindow(call'[p].arg) = {} THEN Err(ErrNoTransactions)
                       ELSE Ok(ReportOf(call'[p].arg)))

\* C12, as the specification states it: the tables only grow, no row is
\* changed or deleted, the five other tools leave the tables alone, two
\* reports over the same tables are the same, and a row is created only by
\* a call of record_transaction that succeeds: a call that ends without a
\* result has left no row.
C12_RowsOnlyFromSuccessfulCalls ==
  [][/\ OnlyGrows
     /\ ReportFromTables
     /\ \A p \in OneCaller :
          (pc'[p] = "done" /\ call'[p].op = "record_transaction"
             /\ ret'[p].kind # "ok")
            => StoredRow(p)' = {}]_vars

\* C12, as the code has it: Users and Budgets never change, Transactions
\* only grows by one new last row at a time, and only in the INSERT step of
\* a call of record_transaction; no row is changed or deleted, and the five
\* other tools leave the three tables alone, so that two calls of
\* analyze_spending over the same tables hand back the same report. The
\* call that created a row need not succeed: it ends without a result, the
\* row staying, when its log append fails after the commit, and only then.
C12_TablesOnlyGrow ==
  [][/\ OnlyGrows
     /\ ReportFromTables
     /\ \A p \in OneCaller :
          (pc'[p] = "done" /\ call'[p].op = "record_transaction"
             /\ ret'[p].kind # "ok" /\ StoredRow(p)' # {})
            => /\ pc[p] = "rt_log"
               /\ ret'[p].kind = "raised"
               /\ logLines' = logLines]_vars

\* C12: a report was made over a table that calls of record_transaction
\* have filled.
C12_Witness ==
  \E p \in OneCaller :
    /\ Ended(p, "analyze_spending")
    /\ ret[p].kind = "ok"
    /\ Len(Transactions) >= 2
    /\ Len(logLines) >= 2

\* Two callers in record_transaction at once: the sessions of the app run
\* side by side and share the database and the log file.
TwoCallers == {"c1", "c2"}

WriterTexts == {TextGroceries, TextZero, TextAbc}

InitWriters == InitWith({<<>>}, TwoCallers)

NextWriters ==
  \E p \in TwoCallers :
    \/ \E text \in WriterTexts : record_transaction(p, text)
    \/ RT_Insert(p)
    \/ RT_InsertFails(p)
    \/ RT_Log(p)
    \/ RT_LogFails(p)
    \/ RT_Interrupted(p)
    \/ Return(p)

SpecWriters == InitWriters /\ [][NextWriters]_vars

\* The log line ln describes the row r.
Describes(ln, r) ==
  /\ ln.user = r.user_id
  /\ ln.date = FormatDate(r.date)
  /\ ln.amount = r.amount
  /\ ln.payment = r.payment_method
  /\ ln.desc = r.description

\* Every log line has a committed row of its own that it describes.
LinesHaveRows ==
  \E f \in [1..Len(logLines) -> 1..Len(Transactions)] :
    /\ \A j, k \in 1..Len(logLines) : f[j] = f[k] => j = k
    /\ \A k \in 1..Len(logLines) : Describes(logLines[k], Transactions[f[k]])

\* The row the call of p has committed, p being any caller.
CommittedRow(p) ==
  IF call[p].op = "record_transaction" /\ call[p].loc # NoVal
       /\ call[p].loc.row_id # 0
  THEN {Transactions[call[p].loc.row_id]}
  ELSE {}

\* C13: record_transaction commits its row before it appends its log line:
\* on every step, of whatever interleaving of two callers and with a call
\* interrupted between the two, a log line is appended only by a call whose
\* row is already committed and describes that row, every log line has a
\* committed row of its own, and the log lines are never more than the
\* committed rows.
C13_LogAfterCommit ==
  [][/\ logLines' # logLines
          => \E p \in TwoCallers : \E r \in CommittedRow(p) :
               /\ pc[p] = "rt_log"
               /\ Len(logLines') = Len(logLines) + 1
               /\ SubSeq(logLines', 1, Len(logLines)) = logLines
               /\ Describes(logLines'[Len(logLines')], r)
     /\ LinesHaveRows'
     /\ Len(logLines') <= Len(Transactions')]_vars

\* C13: two calls have committed their rows, one was interrupted before its
\* log append and the other has written its line.
C13_Witness ==
  \E p, q \in TwoCallers :
    /\ p # q
    /\ CommittedRow(p) # {}
    /\ CommittedRow(q) # {}
    /\ pc[p] = "done" /\ ret[p] = Raised("KeyboardInterrupt")
    /\ pc[q] = "done" /\ ret[q].kind = "ok"
    /\ Len(logLines) < Len(Transactions)

\* Some row of W dated in the month named a comes before every row of W
\* dated in the month named b: scanning by ascending date meets a first.
MetBefore(W, a, b) ==
  \E i \in InMonth(W, a) : \A j \in InMonth(W, b) :
    /\ DateLeq(Transactions[i].date, Transactions[j].date)
    /\ Transactions[i].date # Transactions[j].date

\* C14, as the specification states it: the keys of monthly_breakdown come
\* in the order in which the month names are first met when the rows of the
\* window are scanned by ascending date (March, April, May for a window
\* over these three months).
C14_KeysInFirstSeenOrder ==
  \A p \in OneCaller :
    (Ended(p, "analyze_spending") /\ ret[p].kind = "ok")
      => LET mb == ret[p].val.monthly_breakdown
         IN  \A a, b \in DOMAIN mb :
               a < b => MetBefore(InWindow(call[p].arg), mb[a].month, mb[b].month)

\* The rows the tables of SpecReceipts are made of: two rows of user 7, a
\* row of user 1 and a row of user 9, who has no Users row.
ReceiptRowPool ==
  {<<7, MkDate(2025, 5, 20), 10000, <<"C", "B", "E">>, <<"c">>>>,
   <<7, MkDate(2025, 4, 10), 20, <<"Y">>, <<"b">>>>,
   <<1, MkDate(2025, 5, 20), 700, <<"C", "B", "E">>, <<"h">>>>,
   <<9, MkDate(2025, 5, 2), 0, <<"Y">>, <<"i">>>>}

ReceiptSeeds ==
  UNION {{SeedTable(rs) : rs \in [1..k -> ReceiptRowPool]} : k \in 0..MaxSeedRows}

\* Two callers in generate_transaction_receipt at once.
InitReceipts == InitWith(ReceiptSeeds, TwoCallers)

NextReceipts ==
  \E p \in TwoCallers :
    \/ \E tid \in AskedTransactions : generate_transaction_receipt(p, tid)
    \/ GR_Write(p)
    \/ Return(p)

SpecReceipts == InitReceipts /\ [][NextReceipts]_vars

\* The user ids and transaction ids up to which the paths are compared.
MaxPathId == 30

\* "user<uid>-transaction<tid>-receipt.pdf"
PathOf(uid, tid) ==
  <<"u", "s", "e", "r">> \o FormatInt(uid)
    \o <<"-", "t", "r", "a", "n", "s", "a", "c", "t", "i", "o", "n">>
    \o FormatInt(tid)
    \o <<"-", "r", "e", "c", "e", "i", "p", "t", ".", "p", "d", "f">>

\* Two different pairs of user id and transaction id have two paths.
PathsDiffer ==
  \A u1, u2 \in 0..MaxPathId : \A t1, t2 \in 1..MaxPathId :
    ReceiptPath(u1, t1) = ReceiptPath(u2, t2) => u1 = u2 /\ t1 = t2

\* The file f is the receipt of the row r: its path is the one of the
\* row's user id and transaction id and its fields are the row's.
ReceiptOf(f, r) ==
  /\ f.path = PathOf(r.user_id, r.transaction_id)
  /\ f.transaction_id = r.transaction_id
  /\ f.user_id = r.user_id
  /\ f.date = FormatDate(r.date)
  /\ f.amount = FormatAmount(r.amount)
  /\ f.payment_method = r.payment_method
  /\ f.description = r.description
  /\ \E u \in Users : u.user_id = r.user_id /\ f.user = <<u.fname, u.lname>>

\* C15: after any interleaving of calls of generate_transaction_receipt by
\* two callers, every receipt file is the receipt of a row of Transactions,
\* at the path made of the row's user id and transaction id; no transaction
\* id and no path has two files, two different transactions have two
\* different paths, and a receipt made again (the last writer's file
\* staying) holds the fields of its row.
C15_OneReceiptPerTransaction ==
  /\ PathsDiffer
  /\ \A f \in receipts :
       \E i \in 1..Len(Transactions) : ReceiptOf(f, Transactions[i])
  /\ \A f, g \in receipts :
       (f.transaction_id = g.transaction_id \/ f.path = g.path) => f = g
  /\ \A p \in TwoCallers :
       (Ended(p, "generate_transaction_receipt") /\ ret[p].kind = "ok")
         => \E f \in receipts :
              /\ f.path = ret[p].val.receipt_path
              /\ f.transaction_id = call[p].arg

\* C15: both callers have made the receipt of one transaction, one over
\* the other's, and the receipt of another transaction is there as well.
C15_Witness ==
  \E p, q \in TwoCallers :
    /\ p # q
    /\ Ended(p, "generate_transaction_receipt") /\ ret[p].kind = "ok"
    /\ Ended(q, "generate_transaction_receipt") /\ ret[q].kind = "ok"
    /\ call[p].arg = call[q].arg
    /\ Cardinality(receipts) = 2

=============================================================================
